---- MODULE Spec2Model ----
(***************************************************************************)
(* Model of the threedsecureio connector transformers                      *)
(* (crates/router/src/connector/threedsecureio/transformers.rs).           *)
(*                                                                         *)
(* Three specifications share the variables:                               *)
(*   Spec         one operation's lifecycle: credential conversion, amount *)
(*                wrapper, inbound transformer, send, outbound transformer *)
(*   VersionSpec  the protocol-version parser applied to bounded strings   *)
(*   ConcSpec     NumOps operations whose lifecycle steps interleave; each *)
(*                lifecycle variable is then a function of the operation   *)
(*                                                                         *)
(* Text the code inspects character by character (version strings, the     *)
(* decimal rendering of integers) is a sequence of one-character strings.  *)
(* Text the code only copies is an ordinary string.                        *)
(***************************************************************************)
EXTENDS Integers, Sequences, FiniteSets, TLC

VARIABLES
    pc,         \* position in the operation's lifecycle
    flow,       \* flow tag of the envelope
    data,       \* the envelope (RouterData) as currently held
    orig,       \* the envelope as created (history, never read by the code)
    auth,       \* result of ThreedsecureioAuthType::try_from
    item,       \* the amount wrapper (ThreedsecureioRouterData)
    req,        \* result of the inbound transformer
    resp,       \* the processor's response body
    clock,      \* the instant date_time::now() returned, once read
    writes,     \* the steps that wrote the envelope's outcome slot (history)
    value,      \* VersionSpec: the string handed to foreign_try_from
    parsed      \* VersionSpec: its result

vars ==
    <<pc, flow, data, orig, auth, item, req, resp, clock, writes, value, parsed>>

-----------------------------------------------------------------------------
(* Bounds *)

\* longest version string VersionSpec enumerates
MaxLen == 7

\* largest number of optional envelope fields absent at once
MaxAbsent == 2

\* amounts -1 .. MaxAmount are enumerated besides the scenario amount
MaxAmount == 1

\* number of operations ConcSpec interleaves
NumOps == 2

-----------------------------------------------------------------------------
(* Option, Result and error reports *)

None == [some |-> FALSE]

Some(x) == [some |-> TRUE, val |-> x]

Ok(x) == [ok |-> TRUE, val |-> x]

\* error_stack::Report<ConnectorError>: the typed kind, the kind's own
\* argument (NotImplemented's feature name), the error it was converted from
\* (into_report().change_context(..)) and the attach_printable lines
Report(kind, arg, cause, printable) ==
    [kind |-> kind, arg |-> arg, cause |-> cause, printable |-> printable]

Err(report) == [ok |-> FALSE, err |-> report]

\* a bare ConnectorError converted with `?` / .into(): nothing attached
Bare(kind) == Report(kind, "", "", <<>>)

NotYet == [ok |-> FALSE, err |-> Bare("not run")]

-----------------------------------------------------------------------------
(* Text *)

Digits == <<"0", "1", "2", "3", "4", "5", "6", "7", "8", "9">>

IsDigit(c) == \E i \in 1..10 : Digits[i] = c

DigitValue(c) == (CHOOSE i \in 1..10 : Digits[i] = c) - 1

\* str::split('.'): the components between the dots; always at least one
RECURSIVE Split(_)
Split(s) ==
    IF \A i \in 1..Len(s) : s[i] # "."
    THEN <<s>>
    ELSE LET d == CHOOSE i \in 1..Len(s) :
                      s[i] = "." /\ \A j \in 1..(i - 1) : s[j] # "."
         IN  <<SubSeq(s, 1, d - 1)>> \o Split(SubSeq(s, d + 1, Len(s)))

RECURSIVE StripZeros(_)
StripZeros(ds) ==
    IF Len(ds) > 1 /\ ds[1] = "0" THEN StripZeros(Tail(ds)) ELSE ds

\* ds <= limit for two digit strings of the same length
RECURSIVE DigitsLeq(_, _)
DigitsLeq(ds, limit) ==
    IF ds = <<>> THEN TRUE
    ELSE IF DigitValue(ds[1]) # DigitValue(limit[1])
         THEN DigitValue(ds[1]) < DigitValue(limit[1])
         ELSE DigitsLeq(Tail(ds), Tail(limit))

\* i64::MAX = 9223372036854775807; i64::MIN has magnitude ...808
I64MaxDigits ==
    <<"9","2","2","3","3","7","2","0","3","6","8","5","4","7","7","5","8","0","7">>

I64MinDigits ==
    <<"9","2","2","3","3","7","2","0","3","6","8","5","4","7","7","5","8","0","8">>

FitsI64(ds, negative) ==
    LET sig == StripZeros(ds)
        lim == IF negative THEN I64MinDigits ELSE I64MaxDigits
    IN  \/ Len(sig) < Len(lim)
        \/ Len(sig) = Len(lim) /\ DigitsLeq(sig, lim)

RECURSIVE DigitsToInt(_)
DigitsToInt(ds) ==
    IF ds = <<>> THEN 0
    ELSE 10 * DigitsToInt(SubSeq(ds, 1, Len(ds) - 1)) + DigitValue(ds[Len(ds)])

\* <i64 as FromStr>::from_str: an optional sign, then one or more decimal
\* digits whose value fits 64 bits. Ok(n) or the ParseIntError.
\* (The value is a model integer: exact for the digit strings enumerated here,
\* which are far shorter than the 19 digits overflow needs.)
ParseI64(s) ==
    LET signed == Len(s) > 0 /\ s[1] \in {"+", "-"}
        negative == Len(s) > 0 /\ s[1] = "-"
        ds == IF signed THEN Tail(s) ELSE s
    IN  IF s = <<>> THEN Err(Bare("ParseIntError: Empty"))
        ELSE IF ds = <<>> \/ \E i \in 1..Len(ds) : ~IsDigit(ds[i])
             THEN Err(Bare("ParseIntError: InvalidDigit"))
        ELSE IF ~FitsI64(ds, negative)
             THEN Err(Bare(IF negative THEN "ParseIntError: NegOverflow"
                                       ELSE "ParseIntError: PosOverflow"))
        ELSE Ok(IF negative THEN 0 - DigitsToInt(ds) ELSE DigitsToInt(ds))

\* <i64 as ToString>::to_string: "-" for a negative value, then the decimal
\* digits without leading zeros
RECURSIVE NatToString(_)
NatToString(n) ==
    IF n < 10 THEN <<Digits[n + 1]>>
    ELSE NatToString(n \div 10) \o <<Digits[(n % 10) + 1]>>

to_string(n) == IF n < 0 THEN <<"-">> \o NatToString(0 - n) ELSE NatToString(n)

-----------------------------------------------------------------------------
(* ForeignTryFrom<String> for (i64, i64, i64) *)

\* mutant: the parse error is propagated without change_context
ChangeContext_dropped(result, kind) == result

\* into_report().change_context(ResponseDeserializationFailed) on a parse error
ChangeContext(result, kind) ==
    IF result.ok THEN result
    ELSE Err(Report(kind, "", result.err.kind, result.err.printable))

\* splitted_version.next().ok_or(report!(ResponseDeserializationFailed))
NextOr(parts, n) ==
    IF Len(parts) >= n THEN Ok(parts[n])
    ELSE Err(Bare("ResponseDeserializationFailed"))

foreign_try_from(s) ==
    LET parts == Split(s)
        major_s == NextOr(parts, 1)
        minor_s == NextOr(parts, 2)
        patch_s == NextOr(parts, 3)
    IN  IF ~major_s.ok THEN major_s
        ELSE IF ~minor_s.ok THEN minor_s
        ELSE IF ~patch_s.ok THEN patch_s
        ELSE LET major == ChangeContext(ParseI64(major_s.val),
                                        "ResponseDeserializationFailed")
                 minor == ChangeContext(ParseI64(minor_s.val),
                                        "ResponseDeserializationFailed")
                 patch == ChangeContext(ParseI64(patch_s.val),
                                        "ResponseDeserializationFailed")
             IN  IF ~major.ok THEN major
                 ELSE IF ~minor.ok THEN minor
                 ELSE IF ~patch.ok THEN patch
                 ELSE Ok(<<major.val, minor.val, patch.val>>)

-----------------------------------------------------------------------------
(* Credentials: TryFrom<&ConnectorAuthType> for ThreedsecureioAuthType *)

Credentials ==
    {[variant |-> "HeaderKey", api_key |-> k] : k \in {"key_a", "key_b"}}
    \cup {[variant |-> v, api_key |-> "key_a"] :
              v \in {"BodyKey", "SignatureKey", "MultiAuthKey"}}
    \cup {[variant |-> "NoKey", api_key |-> ""]}

\* mutant: BodyKey is accepted as well
AuthType_try_from_lenient(auth_type) ==
    IF auth_type.variant \in {"HeaderKey", "BodyKey"}
    THEN Ok([api_key |-> auth_type.api_key])
    ELSE Err(Bare("FailedToObtainAuthType"))

AuthType_try_from(auth_type) ==
    IF auth_type.variant = "HeaderKey"
    THEN Ok([api_key |-> auth_type.api_key])
    ELSE Err(Bare("FailedToObtainAuthType"))

-----------------------------------------------------------------------------
(* Amount wrapper: ThreedsecureioRouterData<T> *)

Amounts == (-1..MaxAmount) \cup {1050}

Currencies == {"USD", "JPY"}

CurrencyUnits == {"Base", "Minor"}

\* mutant: a Base currency unit converts the amount to major units
RouterData_try_from_unit_major(currency_unit, currency, amount, router_data) ==
    Ok([amount |-> IF currency_unit = "Base" THEN amount \div 100 ELSE amount,
        router_data |-> router_data])

\* TryFrom<(&CurrencyUnit, Currency, i64, T)>
RouterData_try_from_unit(currency_unit, currency, amount, router_data) ==
    Ok([amount |-> amount, router_data |-> router_data])

\* TryFrom<(i64, T)>
RouterData_try_from_bare(amount, router_data) ==
    Ok([amount |-> amount, router_data |-> router_data])

-----------------------------------------------------------------------------
(* Status mappings *)

PaymentStatuses == {"Succeeded", "Failed", "Processing"}

RefundStatuses == {"Succeeded", "Failed", "Processing"}

\* mutant: Processing is mapped to Pending
AttemptStatus_from_pending(status) ==
    CASE status = "Succeeded" -> "Charged"
      [] status = "Failed" -> "Failure"
      [] status = "Processing" -> "Pending"

\* From<ThreedsecureioPaymentStatus> for enums::AttemptStatus
AttemptStatus_from(status) ==
    CASE status = "Succeeded" -> "Charged"
      [] status = "Failed" -> "Failure"
      [] status = "Processing" -> "Authorizing"

\* From<RefundStatus> for enums::RefundStatus
RefundStatus_from(status) ==
    CASE status = "Succeeded" -> "Success"
      [] status = "Failed" -> "Failure"
      [] status = "Processing" -> "Pending"

-----------------------------------------------------------------------------
(* Library lookups used by the Authenticate transformer *)

\* mutant: the numeric codes of the two currencies are exchanged
CurrencyNumeric_exchanged ==
    [c \in {"USD", "JPY"} |-> IF c = "USD" THEN 392 ELSE 840]

\* iso_currency::Currency::from_code(..) followed by .numeric()
CurrencyNumeric ==
    [c \in Currencies |-> IF c = "USD" THEN 840 ELSE 392]

from_code(code) ==
    IF code \in DOMAIN CurrencyNumeric THEN Some(code) ELSE None

Countries == {"US", "JP"}

\* isocountry::CountryCode::for_alpha2(..) followed by .numeric_id()
CountryNumericId ==
    [c \in Countries |-> IF c = "US" THEN 840 ELSE 392]

for_alpha2(code) ==
    IF code \in DOMAIN CountryNumericId THEN Ok(code)
    ELSE Err(Bare("CountryCodeParseErr"))

\* AddressDetailsData::to_state_code (connector::utils)
to_state_code(address) ==
    IF address.state.some THEN Ok(address.state.val)
    ELSE Err(Bare("RequestEncodingFailed"))

\* CardData::get_expiry_date_as_yymm (connector::utils): two-digit year, month
get_expiry_date_as_yymm(card) ==
    Ok(SubSeq(card.card_exp_year, Len(card.card_exp_year) - 1,
              Len(card.card_exp_year)) \o card.card_exp_month)

\* PaymentsAuthorizeRequestData::is_auto_capture (connector::utils)
is_auto_capture(request) ==
    CASE request.capture_method \in {"None", "Automatic"} -> Ok(TRUE)
      [] request.capture_method = "Manual" -> Ok(FALSE)
      [] OTHER -> Err(Report("NotImplemented", "Capture method", "", <<>>))

\* zero-padded decimal of width w
RECURSIVE Pad(_, _)
Pad(ds, w) == IF Len(ds) >= w THEN ds ELSE Pad(<<"0">> \o ds, w)

\* date_time::DateTime::<YYYYMMDDHHmmss>::from(now).to_string()
FormatYYYYMMDDHHmmss(now) ==
    Pad(to_string(now.year), 4) \o Pad(to_string(now.month), 2)
    \o Pad(to_string(now.day), 2) \o Pad(to_string(now.hour), 2)
    \o Pad(to_string(now.minute), 2) \o Pad(to_string(now.second), 2)

\* date_time::now(): the instants the clock may show when the request is built
Clock ==
    {[year |-> 2024, month |-> 2, day |-> 9, hour |-> 7, minute |-> 5, second |-> 3],
     [year |-> 2024, month |-> 11, day |-> 30, hour |-> 23, minute |-> 59, second |-> 58]}

-----------------------------------------------------------------------------
(* Envelopes (RouterData<Flow, Request, Response>) *)

CardDetails ==
    [card_number |-> "4111111111111111",
     card_exp_month |-> <<"0", "3">>,
     card_exp_year |-> <<"2", "0", "3", "0">>,
     card_cvc |-> "123"]

PaymentMethods ==
    {[variant |-> "Card", card |-> CardDetails],
     [variant |-> "Wallet"],
     [variant |-> "BankRedirect"]}

\* the envelope's outcome slot before any transformer has written it
Unwritten == Err(Bare("unwritten"))

Envelope(status, credential, request) ==
    [merchant_id |-> "merchant_1",
     connector |-> "threedsecureio",
     status |-> status,
     connector_auth_type |-> credential,
     request |-> request,
     response |-> Unwritten]

InitialStatuses == {"Started", "Pending"}

CaptureMethods == {"None", "Automatic", "Manual"}

\* PaymentsAuthorizeData
AuthorizeRequests ==
    {[payment_method_data |-> pm, amount |-> a, currency |-> c,
      capture_method |-> cm] :
        pm \in PaymentMethods, a \in Amounts, c \in Currencies,
        cm \in CaptureMethods}

\* RefundsData
RefundRequests ==
    {[refund_amount |-> a, currency |-> c,
      connector_transaction_id |-> "txn_1"] :
        a \in Amounts, c \in Currencies}

\* the Option-typed fields of ConnectorAuthenticationRequestData that the
\* Authenticate transformer looks at
AddressFields == {"city", "country", "line1", "zip", "state"}

BrowserFields ==
    {"java_script_enabled", "accept_header", "ip_address", "java_enabled",
     "language", "color_depth", "screen_height", "screen_width", "time_zone",
     "user_agent"}

OptionalFields ==
    {"currency", "billing_address", "acquirer_details"}
    \cup AddressFields \cup BrowserFields

AbsentSets == {A \in SUBSET OptionalFields : Cardinality(A) <= MaxAbsent}

Opt(absent, field, x) == IF field \in absent THEN None ELSE Some(x)

MessageVersions ==
    {<<"2", ".", "2", ".", "0">>, <<"2", ".", "x">>}

MessageCategories == {"Payment", "NonPayment"}

\* ConnectorAuthenticationRequestData with the fields in `absent` missing
AuthenticationRequest(absent, pm, currency, country, version, category) ==
    [payment_method_data |-> pm,
     currency |-> Opt(absent, "currency", currency),
     amount |-> Some(1050),
     billing_address |->
        [address |-> Opt(absent, "billing_address",
            [city |-> Opt(absent, "city", "Paris"),
             country |-> Opt(absent, "country", country),
             line1 |-> Opt(absent, "line1", "1 Main St"),
             zip |-> Opt(absent, "zip", "75001"),
             state |-> Opt(absent, "state", "IDF")])],
     acquirer_details |-> Opt(absent, "acquirer_details",
            [acquirer_bin |-> "438309", acquirer_merchant_mid |-> "mid_1"]),
     browser_details |->
        [java_script_enabled |-> Opt(absent, "java_script_enabled", TRUE),
         accept_header |-> Opt(absent, "accept_header", "text/html"),
         ip_address |-> Opt(absent, "ip_address", "10.0.0.1"),
         java_enabled |-> Opt(absent, "java_enabled", FALSE),
         language |-> Opt(absent, "language", "en-US"),
         color_depth |-> Opt(absent, "color_depth", 24),
         screen_height |-> Opt(absent, "screen_height", 1080),
         screen_width |-> Opt(absent, "screen_width", 1920),
         time_zone |-> Opt(absent, "time_zone", -60),
         user_agent |-> Opt(absent, "user_agent", "Mozilla/5.0")],
     authentication_data |->
        [message_version |-> version,
         threeds_server_transaction_id |-> "3ds_txn_1"],
     device_channel |-> "02",
     message_category |-> category]

\* currency and billing country of the envelopes enumerated
Locales == {<<"USD", "US">>, <<"JPY", "JP">>}

AuthenticationRequests ==
    {AuthenticationRequest(A, pm, l[1], l[2], v, mc) :
        A \in AbsentSets,
        pm \in {p \in PaymentMethods : p.variant # "BankRedirect"},
        l \in Locales, v \in MessageVersions, mc \in MessageCategories}

-----------------------------------------------------------------------------
(* Inbound transformers *)

\* Option::ok_or(kind) followed by `?`
ok_or(opt, kind) == IF opt.some THEN Ok(opt.val) ELSE Err(Bare(kind))

\* Option::and_then(|address| address.<field>)
and_then(opt, field) == IF opt.some THEN opt.val[field] ELSE None

\* the first error of a sequence of step results, or Ok(built)
FirstErr(steps, built) ==
    IF \E i \in 1..Len(steps) : ~steps[i].ok
    THEN steps[CHOOSE i \in 1..Len(steps) :
                   ~steps[i].ok /\ \A j \in 1..(i - 1) : steps[j].ok]
    ELSE Ok(built)

\* mutant: the amount is taken from the envelope, not from the wrapper
PaymentsRequest_try_from_envelope(it) ==
    LET request == it.router_data.request
        pm == request.payment_method_data
    IN  IF pm.variant = "Card"
        THEN LET complete == is_auto_capture(request)
             IN  IF ~complete.ok THEN complete
                 ELSE Ok([amount |-> request.amount,
                          card |-> [number |-> pm.card.card_number,
                                    expiry_month |-> pm.card.card_exp_month,
                                    expiry_year |-> pm.card.card_exp_year,
                                    cvc |-> pm.card.card_cvc,
                                    complete |-> complete.val]])
        ELSE Err(Report("NotImplemented", "Payment methods", "", <<>>))

\* TryFrom<&ThreedsecureioRouterData<&PaymentsAuthorizeRouterData>>
\*   for ThreedsecureioPaymentsRequest
PaymentsRequest_try_from(it) ==
    LET request == it.router_data.request
        pm == request.payment_method_data
    IN  IF pm.variant = "Card"
        THEN LET complete == is_auto_capture(request)
             IN  IF ~complete.ok THEN complete
                 ELSE Ok([amount |-> it.amount,
                          card |-> [number |-> pm.card.card_number,
                                    expiry_month |-> pm.card.card_exp_month,
                                    expiry_year |-> pm.card.card_exp_year,
                                    cvc |-> pm.card.card_cvc,
                                    complete |-> complete.val]])
        ELSE Err(Report("NotImplemented", "Payment methods", "", <<>>))

\* TryFrom<&ThreedsecureioRouterData<&RefundsRouterData<F>>>
\*   for ThreedsecureioRefundRequest
RefundRequest_try_from(it) == Ok([amount |-> it.amount])

get_card_details(payment_method_data) ==
    IF payment_method_data.variant = "Card"
    THEN Ok(payment_method_data.card)
    ELSE Err(Bare("RequestEncodingFailed"))

\* request.currency.map(to_string).ok_or(..)?, then Currency::from_code(..).ok_or(..)?
purchase_currency_step(request) ==
    LET currency == ok_or(request.currency, "RequestEncodingFailed")
    IN  IF ~currency.ok THEN currency
        ELSE ok_or(from_code(currency.val), "RequestEncodingFailed")

address_step(request) ==
    ok_or(request.billing_address.address, "RequestEncodingFailed")

billing_state_step(request) ==
    LET address == address_step(request)
    IN  IF ~address.ok THEN address ELSE to_state_code(address.val)

\* mutant: a missing country falls back to a default instead of failing
billing_country_step_default(request) ==
    LET country == and_then(request.billing_address.address, "country")
        code == for_alpha2(IF country.some THEN country.val ELSE "US")
    IN  IF code.ok THEN code
        ELSE Err(Report("RequestEncodingFailed", "", code.err.kind,
                        <<"Error parsing billing country type2">>))

\* for_alpha2(address.and_then(country).ok_or(..)?) .into_report()
\*   .change_context(RequestEncodingFailed).attach_printable(..)?
billing_country_step(request) ==
    LET country == ok_or(and_then(request.billing_address.address, "country"),
                         "RequestEncodingFailed")
    IN  IF ~country.ok THEN country
        ELSE LET code == for_alpha2(country.val)
             IN  IF code.ok THEN code
                 ELSE Err(Report("RequestEncodingFailed", "", code.err.kind,
                                 <<"Error parsing billing country type2">>))

acquirer_step(request, field) ==
    LET acquirer == ok_or(request.acquirer_details, "RequestEncodingFailed")
    IN  IF ~acquirer.ok THEN acquirer ELSE Ok(acquirer.val[field])

card_expiry_step(request) ==
    LET card == get_card_details(request.payment_method_data)
    IN  IF ~card.ok THEN card ELSE get_expiry_date_as_yymm(card.val)

\* mutant: a missing address line becomes the empty string
address_field_step_default(request, field) ==
    LET found == and_then(request.billing_address.address, field)
    IN  Ok(IF found.some THEN found.val ELSE "")

address_field_step(request, field) ==
    ok_or(and_then(request.billing_address.address, field),
          "RequestEncodingFailed")

browser_step(request, field) ==
    ok_or(request.browser_details[field], "RequestEncodingFailed")

\* mutant: the stamp is the date alone
purchase_date_short(now) ==
    Pad(to_string(now.year), 4) \o Pad(to_string(now.month), 2)
    \o Pad(to_string(now.day), 2)

\* date_time::DateTime::<date_time::YYYYMMDDHHmmss>::from(date_time::now())
\*   .to_string()
purchase_date(now) == FormatYYYYMMDDHHmmss(now)

\* the ok value of a step (used only once every step has succeeded)
Val(result) == result.val

\* TryFrom<&ThreedsecureioRouterData<&ConnectorAuthenticationRouterData>>
\*   for ThreedsecureioAuthenticationRequest
AuthenticationRequest_try_from(it, now) ==
    LET request == it.router_data.request
        version == request.authentication_data.message_version
        card_details == get_card_details(request.payment_method_data)
        purchase_currency == purchase_currency_step(request)
        billing_state == billing_state_step(request)
        billing_country == billing_country_step(request)
        acquirer_bin == acquirer_step(request, "acquirer_bin")
        acquirer_merchant_id == acquirer_step(request, "acquirer_merchant_mid")
        card_expiry_date == card_expiry_step(request)
        city == address_field_step(request, "city")
        line1 == address_field_step(request, "line1")
        zip == address_field_step(request, "zip")
        java_script_enabled == browser_step(request, "java_script_enabled")
        accept_header == browser_step(request, "accept_header")
        java_enabled == browser_step(request, "java_enabled")
        language == browser_step(request, "language")
        color_depth == browser_step(request, "color_depth")
        screen_height == browser_step(request, "screen_height")
        screen_width == browser_step(request, "screen_width")
        time_zone == browser_step(request, "time_zone")
        user_agent == browser_step(request, "user_agent")
    IN  FirstErr(
          <<card_details, purchase_currency, address_step(request),
            billing_state, billing_country, acquirer_bin,
            acquirer_merchant_id, card_expiry_date, city, line1, zip,
            java_script_enabled, accept_header, java_enabled, language,
            color_depth, screen_height, screen_width, time_zone, user_agent>>,
          [ds_start_protocol_version |-> version,
           ds_end_protocol_version |-> version,
           acs_start_protocol_version |-> version,
           acs_end_protocol_version |-> version,
           three_dsserver_trans_id |->
               request.authentication_data.threeds_server_transaction_id,
           acct_number |-> Val(card_details).card_number,
           notification_url |->
               "https://webhook.site/8d03e3ea-a7d8-48f5-a200-476bca75a55c",
           three_dscomp_ind |-> "Y",
           three_dsrequestor_url |-> "https::/google.com",
           acquirer_bin |-> Val(acquirer_bin),
           acquirer_merchant_id |-> Val(acquirer_merchant_id),
           card_expiry_date |-> Val(card_expiry_date),
           bill_addr_city |-> Val(city),
           bill_addr_country |->
               to_string(CountryNumericId[Val(billing_country)]),
           bill_addr_line1 |-> Val(line1),
           bill_addr_post_code |-> Val(zip),
           bill_addr_state |-> Val(billing_state),
           three_dsrequestor_authentication_ind |-> "01",
           device_channel |-> request.device_channel,
           message_category |->
               IF request.message_category = "Payment" THEN "01" ELSE "02",
           browser_javascript_enabled |-> Val(java_script_enabled),
           browser_accept_header |-> Val(accept_header),
           browser_ip |-> request.browser_details.ip_address,
           browser_java_enabled |-> Val(java_enabled),
           browser_language |-> Val(language),
           browser_color_depth |-> to_string(Val(color_depth)),
           browser_screen_height |-> to_string(Val(screen_height)),
           browser_screen_width |-> to_string(Val(screen_width)),
           browser_tz |-> to_string(Val(time_zone)),
           browser_user_agent |-> Val(user_agent),
           mcc |-> "5411",
           merchant_country_code |-> "840",
           merchant_name |-> "Dummy Merchant",
           message_type |-> "AReq",
           message_version |-> version,
           purchase_amount |-> to_string(it.amount),
           purchase_currency |->
               to_string(CurrencyNumeric[Val(purchase_currency)]),
           trans_type |-> "01",
           purchase_exponent |-> "2",
           purchase_date |-> purchase_date(now)])

-----------------------------------------------------------------------------
(* Outbound transformers *)

\* mutant: the transaction id is also given as the connector's reference id
PaymentsResponse_try_from_reference(response, envelope) ==
    Ok([envelope EXCEPT
          !.status = AttemptStatus_from(response.status),
          !.response = Ok([variant |-> "TransactionResponse",
                           resource_id |->
                               [variant |-> "ConnectorTransactionId",
                                id |-> response.id],
                           redirection_data |-> None,
                           mandate_reference |-> None,
                           connector_metadata |-> None,
                           network_txn_id |-> None,
                           connector_response_reference_id |-> Some(response.id),
                           incremental_authorization_allowed |-> None])])

\* mutant: only the status is set, the outcome slot is left as it was
PaymentsResponse_try_from_status_only(response, envelope) ==
    Ok([envelope EXCEPT !.status = AttemptStatus_from(response.status)])

\* TryFrom<ResponseRouterData<F, ThreedsecureioPaymentsResponse, T,
\*   PaymentsResponseData>> for RouterData<F, T, PaymentsResponseData>
PaymentsResponse_try_from(response, envelope) ==
    Ok([envelope EXCEPT
          !.status = AttemptStatus_from(response.status),
          !.response = Ok([variant |-> "TransactionResponse",
                           resource_id |->
                               [variant |-> "ConnectorTransactionId",
                                id |-> response.id],
                           redirection_data |-> None,
                           mandate_reference |-> None,
                           connector_metadata |-> None,
                           network_txn_id |-> None,
                           connector_response_reference_id |-> None,
                           incremental_authorization_allowed |-> None])])

\* mutant: the envelope is rebuilt around a fresh request
RefundExecute_try_from_rebuilt(response, envelope) ==
    Ok([envelope EXCEPT
          !.request = [envelope.request EXCEPT !.refund_amount = 0],
          !.response = Ok([connector_refund_id |-> response.id,
                           refund_status |-> RefundStatus_from(response.status)])])

\* TryFrom<RefundsResponseRouterData<Execute, RefundResponse>>
\*   for RefundsRouterData<Execute>
RefundExecute_try_from(response, envelope) ==
    Ok([envelope EXCEPT
          !.response = Ok([connector_refund_id |-> response.id,
                           refund_status |-> RefundStatus_from(response.status)])])

\* mutant: the sync transformer also sets the attempt status
RefundSync_try_from_status(response, envelope) ==
    Ok([envelope EXCEPT
          !.status = "Charged",
          !.response = Ok([connector_refund_id |-> response.id,
                           refund_status |-> RefundStatus_from(response.status)])])

\* TryFrom<RefundsResponseRouterData<RSync, RefundResponse>>
\*   for RefundsRouterData<RSync>
RefundSync_try_from(response, envelope) ==
    Ok([envelope EXCEPT
          !.response = Ok([connector_refund_id |-> response.id,
                           refund_status |-> RefundStatus_from(response.status)])])

-----------------------------------------------------------------------------
(* Spec: the lifecycle of one operation *)

Flows == {"Authorize", "Authenticate", "Execute", "RSync"}

RequestsOf(f) ==
    CASE f = "Authorize" -> AuthorizeRequests
      [] f = "Authenticate" -> AuthenticationRequests
      [] OTHER -> RefundRequests

\* the attempt status the envelope is created with
StatusesOf(f) == IF f = "Authenticate" THEN {"Started"} ELSE InitialStatuses

\* ThreedsecureioPaymentsResponse / RefundResponse /
\* ThreedsecureioAuthenticationResponse bodies the processor may return
ResponsesOf(f) ==
    CASE f = "Authorize" ->
             {[status |-> st, id |-> "pay_1"] : st \in PaymentStatuses}
      [] f = "Authenticate" ->
             {[trans_status |-> "Y", acs_trans_id |-> "acs_1",
               message_version |-> <<"2", ".", "2", ".", "0">>]}
      [] OTHER ->
             {[id |-> "ref_1", status |-> st] : st \in RefundStatuses}

Init ==
    /\ pc = "created"
    /\ flow \in Flows
    /\ \E st \in StatusesOf(flow), cred \in Credentials, r \in RequestsOf(flow) :
          data = Envelope(st, cred, r)
    /\ orig = data
    /\ auth = NotYet /\ item = NotYet /\ req = NotYet
    /\ resp = None /\ clock = None /\ writes = <<>>
    /\ value = <<>> /\ parsed = NotYet

\* the connector converts the envelope's credential
GetAuthType ==
    /\ pc = "created"
    /\ auth' = AuthType_try_from(data.connector_auth_type)
    /\ pc' = IF auth'.ok THEN "authed" ELSE "failed"
    /\ UNCHANGED <<flow, data, orig, item, req, resp, clock, writes, value, parsed>>

\* the wrapper is built from (currency unit, currency, amount, envelope)
WrapWithUnit ==
    /\ pc = "authed"
    /\ \E cu \in CurrencyUnits, c \in Currencies, a \in Amounts :
          item' = RouterData_try_from_unit(cu, c, a, data)
    /\ pc' = IF item'.ok THEN "wrapped" ELSE "failed"
    /\ UNCHANGED <<flow, data, orig, auth, req, resp, clock, writes, value, parsed>>

\* the wrapper is built from (amount, envelope)
WrapBare ==
    /\ pc = "authed"
    /\ \E a \in Amounts : item' = RouterData_try_from_bare(a, data)
    /\ pc' = IF item'.ok THEN "wrapped" ELSE "failed"
    /\ UNCHANGED <<flow, data, orig, auth, req, resp, clock, writes, value, parsed>>

AuthorizeRequest ==
    /\ pc = "wrapped" /\ flow = "Authorize"
    /\ req' = PaymentsRequest_try_from(item.val)
    /\ pc' = IF req'.ok THEN "built" ELSE "failed"
    /\ UNCHANGED <<flow, data, orig, auth, item, resp, clock, writes, value, parsed>>

\* mutant: the operation goes on although the transformer returned an error
AuthenticateRequest_unchecked ==
    /\ pc = "wrapped" /\ flow = "Authenticate"
    /\ \E now \in Clock :
          /\ clock' = Some(now)
          /\ req' = AuthenticationRequest_try_from(item.val, now)
    /\ pc' = "built"
    /\ UNCHANGED <<flow, data, orig, auth, item, resp, writes, value, parsed>>

AuthenticateRequest ==
    /\ pc = "wrapped" /\ flow = "Authenticate"
    /\ \E now \in Clock :
          /\ clock' = Some(now)
          /\ req' = AuthenticationRequest_try_from(item.val, now)
    /\ pc' = IF req'.ok THEN "built" ELSE "failed"
    /\ UNCHANGED <<flow, data, orig, auth, item, resp, writes, value, parsed>>

RefundRequest ==
    /\ pc = "wrapped" /\ flow \in {"Execute", "RSync"}
    /\ req' = RefundRequest_try_from(item.val)
    /\ pc' = IF req'.ok THEN "built" ELSE "failed"
    /\ UNCHANGED <<flow, data, orig, auth, item, resp, clock, writes, value, parsed>>

\* the request goes out and the processor's response body comes back
Send ==
    /\ pc = "built"
    /\ resp' \in {Some(r) : r \in ResponsesOf(flow)}
    /\ pc' = "sent"
    /\ UNCHANGED <<flow, data, orig, auth, item, req, clock, writes, value, parsed>>

\* the envelope an outbound transformer returned replaces the original; a
\* step that changes the outcome slot is logged as its writer
HandBack(result, writer) ==
    /\ data' = IF result.ok THEN result.val ELSE data
    /\ writes' = IF result.ok /\ result.val.response # data.response
                 THEN Append(writes, writer) ELSE writes
    /\ pc' = IF result.ok THEN "done" ELSE "failed"
    /\ UNCHANGED <<flow, orig, auth, item, req, resp, clock, value, parsed>>

PaymentsResponse ==
    /\ pc = "sent" /\ flow = "Authorize"
    /\ HandBack(PaymentsResponse_try_from(resp.val, data), "PaymentsResponse")

RefundExecuteResponse ==
    /\ pc = "sent" /\ flow = "Execute"
    /\ HandBack(RefundExecute_try_from(resp.val, data), "RefundExecuteResponse")

RefundSyncResponse ==
    /\ pc = "sent" /\ flow = "RSync"
    /\ HandBack(RefundSync_try_from(resp.val, data), "RefundSyncResponse")

Next ==
    \/ GetAuthType
    \/ WrapWithUnit
    \/ WrapBare
    \/ AuthorizeRequest
    \/ AuthenticateRequest
    \/ RefundRequest
    \/ Send
    \/ PaymentsResponse
    \/ RefundExecuteResponse
    \/ RefundSyncResponse

Spec == Init /\ [][Next]_vars

-----------------------------------------------------------------------------
(* ConcSpec: NumOps operations in flight at once. Every step is a call of   *)
(* one of the transformers above with the arguments of one operation.       *)

Ops == 1..NumOps

HeaderKeyA == [variant |-> "HeaderKey", api_key |-> "key_a"]

CompleteCard == [variant |-> "Card", card |-> CardDetails]

\* the (flow, envelope) pairs an operation of ConcSpec starts from
ConcOperations ==
    {<<"Authorize",
       Envelope("Started", HeaderKeyA,
                [payment_method_data |-> CompleteCard, amount |-> 0,
                 currency |-> "USD", capture_method |-> "Automatic"])>>,
     <<"Authenticate",
       Envelope("Started", HeaderKeyA,
                AuthenticationRequest({}, CompleteCard, "JPY", "JP",
                                      <<"2", ".", "2", ".", "0">>, "Payment"))>>,
     <<"Authenticate",
       Envelope("Started", HeaderKeyA,
                AuthenticationRequest({"zip"}, CompleteCard, "USD", "US",
                                      <<"2", ".", "2", ".", "0">>, "Payment"))>>,
     <<"Execute",
       Envelope("Pending", HeaderKeyA,
                [refund_amount |-> 1050, currency |-> "USD",
                 connector_transaction_id |-> "txn_1"])>>}

ConcAmounts == {0, 1050}

\* the inbound transformer of a flow
InboundOf(f, it, now) ==
    CASE f = "Authorize" -> PaymentsRequest_try_from(it)
      [] f = "Authenticate" -> AuthenticationRequest_try_from(it, now)
      [] OTHER -> RefundRequest_try_from(it)

\* the outbound transformer of a flow
OutboundOf(f, response, envelope) ==
    CASE f = "Authorize" -> PaymentsResponse_try_from(response, envelope)
      [] f = "Execute" -> RefundExecute_try_from(response, envelope)
      [] OTHER -> RefundSync_try_from(response, envelope)

ConcInit ==
    /\ \E start \in [Ops -> ConcOperations] :
          /\ flow = [o \in Ops |-> start[o][1]]
          /\ data = [o \in Ops |-> start[o][2]]
    /\ orig = data
    /\ pc = [o \in Ops |-> "created"]
    /\ auth = [o \in Ops |-> NotYet]
    /\ item = [o \in Ops |-> NotYet]
    /\ req = [o \in Ops |-> NotYet]
    /\ resp = [o \in Ops |-> None]
    /\ clock = [o \in Ops |-> None]
    /\ writes = [o \in Ops |-> <<>>]
    /\ value = <<>> /\ parsed = NotYet

ConcGetAuthType(o) ==
    /\ pc[o] = "created"
    /\ LET result == AuthType_try_from(data[o].connector_auth_type)
       IN  /\ auth' = [auth EXCEPT ![o] = result]
           /\ pc' = [pc EXCEPT ![o] = IF result.ok THEN "authed" ELSE "failed"]
    /\ UNCHANGED <<flow, data, orig, item, req, resp, clock, writes, value, parsed>>

ConcWrap(o) ==
    /\ pc[o] = "authed"
    /\ \E cu \in CurrencyUnits, a \in ConcAmounts :
          LET result == RouterData_try_from_unit(cu, data[o].request.currency,
                                                 a, data[o])
          IN  /\ item' = [item EXCEPT ![o] = result]
              /\ pc' = [pc EXCEPT ![o] = IF result.ok THEN "wrapped" ELSE "failed"]
    /\ UNCHANGED <<flow, data, orig, auth, req, resp, clock, writes, value, parsed>>

\* mutant: the normalized amount is kept in one place for all operations
ConcInbound_shared_amount(o) ==
    /\ pc[o] = "wrapped"
    /\ \E now \in Clock :
          LET held == IF item[1].ok THEN item[1].val.amount ELSE item[o].val.amount
              result == InboundOf(flow[o], [item[o].val EXCEPT !.amount = held], now)
          IN  /\ req' = [req EXCEPT ![o] = result]
              /\ clock' = [clock EXCEPT ![o] =
                              IF flow[o] = "Authenticate" THEN Some(now) ELSE None]
              /\ pc' = [pc EXCEPT ![o] = IF result.ok THEN "built" ELSE "failed"]
    /\ UNCHANGED <<flow, data, orig, auth, item, resp, writes, value, parsed>>

ConcInbound(o) ==
    /\ pc[o] = "wrapped"
    /\ \E now \in Clock :
          LET result == InboundOf(flow[o], item[o].val, now)
          IN  /\ req' = [req EXCEPT ![o] = result]
              /\ clock' = [clock EXCEPT ![o] =
                              IF flow[o] = "Authenticate" THEN Some(now) ELSE None]
              /\ pc' = [pc EXCEPT ![o] = IF result.ok THEN "built" ELSE "failed"]
    /\ UNCHANGED <<flow, data, orig, auth, item, resp, writes, value, parsed>>

ConcSend(o) ==
    /\ pc[o] = "built"
    /\ \E r \in ResponsesOf(flow[o]) : resp' = [resp EXCEPT ![o] = Some(r)]
    /\ pc' = [pc EXCEPT ![o] = "sent"]
    /\ UNCHANGED <<flow, data, orig, auth, item, req, clock, writes, value, parsed>>

ConcOutbound(o) ==
    /\ pc[o] = "sent" /\ flow[o] # "Authenticate"
    /\ LET result == OutboundOf(flow[o], resp[o].val, data[o])
       IN  /\ data' = [data EXCEPT ![o] = IF result.ok THEN result.val ELSE @]
           /\ writes' = [writes EXCEPT ![o] =
                            IF result.ok /\ result.val.response # data[o].response
                            THEN Append(@, "Outbound") ELSE @]
           /\ pc' = [pc EXCEPT ![o] = IF result.ok THEN "done" ELSE "failed"]
    /\ UNCHANGED <<flow, orig, auth, item, req, resp, clock, value, parsed>>

ConcNext ==
    \E o \in Ops :
        \/ ConcGetAuthType(o)
        \/ ConcWrap(o)
        \/ ConcInbound(o)
        \/ ConcSend(o)
        \/ ConcOutbound(o)

ConcSpec == ConcInit /\ [][ConcNext]_vars

-----------------------------------------------------------------------------
(* VersionSpec: the parser applied to every string over VersionChars of     *)
(* length at most MaxLen                                                    *)

VersionChars == {"0", "2", ".", "x"}

VersionStrings == UNION {[1..n -> VersionChars] : n \in 0..MaxLen}

Idle == [idle |-> TRUE]

VersionInit ==
    /\ value \in VersionStrings
    /\ parsed = NotYet
    /\ pc = "version"
    /\ flow = "none"
    /\ data = Idle /\ orig = Idle /\ auth = NotYet /\ item = NotYet
    /\ req = NotYet /\ resp = None
    /\ clock = None /\ writes = <<>>

ParseVersion ==
    /\ pc = "version"
    /\ parsed' = foreign_try_from(value)
    /\ pc' = "version_done"
    /\ UNCHANGED <<flow, data, orig, auth, item, req, resp, clock, writes, value>>

VersionNext == ParseVersion

VersionSpec == VersionInit /\ [][VersionNext]_vars

-----------------------------------------------------------------------------
(* Claims about the version parser (VersionSpec) *)

Str_2_2_0 == <<"2", ".", "2", ".", "0">>

Str_2_2 == <<"2", ".", "2">>

Str_2_x_0 == <<"2", ".", "x", ".", "0">>

VersionParsed == pc = "version_done"

IsDeserializationError(result) ==
    ~result.ok /\ result.err.kind = "ResponseDeserializationFailed"

\* C1: "2.2.0" parses to Ok((2, 2, 0)); "2.2" and "2.x.0" fail with
\* ResponseDeserializationFailed; and every input string yields either Ok of
\* three integers or that typed error (the parser is total: no panic, no
\* out-of-bounds index).
C1_VersionParsing ==
    VersionParsed =>
        /\ value = Str_2_2_0 => parsed = Ok(<<2, 2, 0>>)
        /\ value \in {Str_2_2, Str_2_x_0} => IsDeserializationError(parsed)
        /\ \/ parsed.ok /\ Len(parsed.val) = 3
                        /\ \A i \in 1..3 : parsed.val[i] \in Int
           \/ IsDeserializationError(parsed)

C1_Witness ==
    /\ VersionParsed
    /\ value = Str_2_x_0
    /\ IsDeserializationError(parsed)
    /\ parsed.err.cause = "ParseIntError: InvalidDigit"

\* a component made of decimal digits only, at least one
IsNumeric(component) ==
    /\ component # <<>>
    /\ \A i \in 1..Len(component) : IsDigit(component[i])

\* C2: the parser accepts a string if and only if it splits on '.' into
\* exactly three components and each of them is numeric.
C2_ExactlyThreeNumeric ==
    VersionParsed =>
        (parsed.ok <=>
            /\ Len(Split(value)) = 3
            /\ \A i \in 1..3 : IsNumeric(Split(value)[i]))

-----------------------------------------------------------------------------
(* Claims about the lifecycle (Spec) *)

\* the inbound transformer has returned
InboundRan == req # NotYet

IsError(result, kind) == ~result.ok /\ result.err.kind = kind

\* the Option-typed fields of an Authenticate request that hold no value (the
\* address lines count only when there is an address to hold them)
AbsentFields(request) ==
    {f \in {"currency", "acquirer_details"} : ~request[f].some}
    \cup (IF request.billing_address.address.some
          THEN {f \in AddressFields :
                    ~request.billing_address.address.val[f].some}
          ELSE {"billing_address"})
    \cup {f \in BrowserFields : ~request.browser_details[f].some}

\* the optional fields the claims list as required by the processor
ProcessorRequired == (OptionalFields \ {"ip_address", "state"})

C5_NonCardNotImplemented ==
    (/\ flow \in {"Authorize", "Authenticate"}
     /\ InboundRan
     /\ data.request.payment_method_data.variant # "Card")
    => /\ IsError(req, "NotImplemented")
       /\ req.err.arg # ""

\* C6: the credential conversion succeeds exactly for HeaderKey, carrying the
\* credential's api_key; every other variant gives FailedToObtainAuthType.
C6_AuthTypeHeaderKeyOnly ==
    auth # NotYet =>
        LET credential == data.connector_auth_type
        IN  IF credential.variant = "HeaderKey"
            THEN auth = Ok([api_key |-> credential.api_key])
            ELSE IsError(auth, "FailedToObtainAuthType")

C6_Witness ==
    /\ auth.ok
    /\ data.connector_auth_type = [variant |-> "HeaderKey", api_key |-> "key_b"]
    /\ auth.val.api_key = "key_b"

AttemptStatuses == {"Charged", "Failure", "Authorizing"}

CanonicalRefundStatuses == {"Success", "Failure", "Pending"}

\* C7: every processor payment status maps to one AttemptStatus (Succeeded ->
\* Charged, Failed -> Failure, Processing -> Authorizing) and every processor
\* refund status to one RefundStatus (Succeeded -> Success, Failed -> Failure,
\* Processing -> Pending); the status an outbound transformer stores is that
\* image of the response's status.
C7_StatusMappings ==
    /\ \A st \in PaymentStatuses : AttemptStatus_from(st) \in AttemptStatuses
    /\ \A st \in RefundStatuses : RefundStatus_from(st) \in CanonicalRefundStatuses
    /\ (pc = "done" /\ flow = "Authorize") =>
          \/ resp.val.status = "Succeeded" /\ data.status = "Charged"
          \/ resp.val.status = "Failed" /\ data.status = "Failure"
          \/ resp.val.status = "Processing" /\ data.status = "Authorizing"
    /\ (pc = "done" /\ flow \in {"Execute", "RSync"}) =>
          LET stored == data.response.val.refund_status
          IN  \/ resp.val.status = "Succeeded" /\ stored = "Success"
              \/ resp.val.status = "Failed" /\ stored = "Failure"
              \/ resp.val.status = "Processing" /\ stored = "Pending"

C7_Witness ==
    /\ pc = "done" /\ flow = "RSync"
    /\ resp.val.status = "Processing"
    /\ data.response.val.refund_status = "Pending"

\* a decimal rendering with no '+' and no leading zero
IsCanonicalDecimal(text) ==
    LET ds == IF Len(text) > 0 /\ text[1] = "-" THEN Tail(text) ELSE text
    IN  /\ IsNumeric(ds)
        /\ Len(ds) > 1 => ds[1] # "0"

\* C8: every request an inbound transformer builds carries the wrapper's
\* amount: Authorize and Refund requests as the same integer, the Authenticate
\* request as the decimal string of that integer, whatever the currency.
C8_RequestCarriesWrapperAmount ==
    (InboundRan /\ req.ok) =>
        IF flow = "Authenticate"
        THEN /\ IsCanonicalDecimal(req.val.purchase_amount)
             /\ ParseI64(req.val.purchase_amount) = Ok(item.val.amount)
        ELSE req.val.amount = item.val.amount

C8_Witness ==
    /\ flow = "Authorize" /\ req.ok
    /\ data.request.payment_method_data.variant = "Card"
    /\ data.request.currency = "USD"
    /\ data.request.amount # 1050
    /\ item.val.amount = 1050
    /\ req.val.amount = 1050

\* C9: the envelope an outbound transformer hands back differs from the
\* original in nothing but the status and the outcome slot: merchant id,
\* connector id, credential and request (amount, payment-method data) are the
\* original's.
C9_OutboundFrame ==
    pc = "done" =>
        /\ DOMAIN data = DOMAIN orig
        /\ \A f \in DOMAIN orig \ {"status", "response"} : data[f] = orig[f]
        /\ flow \in {"Execute", "RSync"} => data.status = orig.status

C9_Witness ==
    /\ pc = "done" /\ flow = "Execute"
    /\ data.response # orig.response
    /\ data.request = orig.request
    /\ data.request.refund_amount = 1050

OutboundSteps ==
    {"PaymentsResponse", "RefundExecuteResponse", "RefundSyncResponse"}

\* the wrapper with a different value in the envelope's outcome slot
OtherSlot(it) == [it EXCEPT !.router_data.response = Ok("other")]

\* C10: the outcome slot holds its initial content until the outbound
\* transformer runs; a lifecycle that reaches hand-back has written it exactly
\* once, in the outbound step; and the inbound transformer's result does not
\* depend on the slot's content (it is not read before the write).
C10_SlotWrittenOnceByOutbound ==
    /\ pc # "done" => writes = <<>> /\ data.response = Unwritten
    /\ pc = "done" => /\ Len(writes) = 1
                      /\ writes[1] \in OutboundSteps
                      /\ data.response.ok
    /\ InboundRan =>
          req = CASE flow = "Authorize" ->
                         PaymentsRequest_try_from(OtherSlot(item.val))
                  [] flow = "Authenticate" ->
                         AuthenticationRequest_try_from(OtherSlot(item.val),
                                                        clock.val)
                  [] OTHER -> RefundRequest_try_from(OtherSlot(item.val))

C10_Witness ==
    /\ pc = "done" /\ flow = "Authorize"
    /\ writes = <<"PaymentsResponse">>
    /\ orig.response = Unwritten
    /\ data.response.ok
    /\ data.response.val.resource_id.id = resp.val.id

\* the error kinds of the connector-error taxonomy a transform stage returns
TransformErrorKinds ==
    {"NotImplemented", "FailedToObtainAuthType", "RequestEncodingFailed",
     "ResponseDeserializationFailed"}

\* the first transform stage that returned an error
StageError == IF ~auth.ok THEN auth ELSE IF ~item.ok THEN item ELSE req

\* C11: a request is sent, and an outbound transformer run, only when the
\* credential conversion, the wrapper and the inbound transformer all
\* returned Ok; after a transform-stage error nothing has been sent, the
\* outcome slot is unwritten, the operation's result is that typed error and
\* no further step (retry, recovery) is possible.
C11_TransformErrorStops ==
    /\ pc \in {"built", "sent", "done"} => auth.ok /\ item.ok /\ req.ok
    /\ resp # None => auth.ok /\ item.ok /\ req.ok
    /\ pc = "failed" =>
          /\ resp = None
          /\ writes = <<>> /\ data = orig
          /\ ~StageError.ok
          /\ StageError.err.kind \in TransformErrorKinds
          /\ ~ENABLED Next

C11_Witness ==
    /\ pc = "failed" /\ flow = "Authenticate"
    /\ auth.ok /\ item.ok
    /\ IsError(req, "RequestEncodingFailed")
    /\ resp = None /\ data.response = Unwritten

\* an error report that carries a diagnostic besides its kind: an
\* attach_printable line or the error it was converted from
HasDiagnostic(report) == report.printable # <<>> \/ report.cause # ""

\* C13: every error an inbound transformer step returns carries an attached
\* human-readable diagnostic in addition to its typed kind.
C13_ErrorsCarryDiagnostic ==
    (InboundRan /\ ~req.ok) => HasDiagnostic(req.err)

\* C14: the Authenticate transformer, given an envelope whose message_version
\* is not three dot-separated numeric components, fails with
\* ResponseDeserializationFailed and builds no request carrying that version.
C14_RequestVersionValidated ==
    (/\ flow = "Authenticate"
     /\ InboundRan
     /\ ~foreign_try_from(data.request.authentication_data.message_version).ok)
    => IsError(req, "ResponseDeserializationFailed")

\* C15: both wrapper constructors succeed for every currency unit, currency,
\* amount and envelope, and agree: each yields the wrapper holding exactly the
\* input amount and the unmodified payload; the wrapper a lifecycle holds is
\* that value, so construction never fails for a recognized currency.
C15_WrapperConstructorsAgree ==
    /\ \A a \in Amounts :
          LET expected == Ok([amount |-> a, router_data |-> orig])
          IN  /\ RouterData_try_from_bare(a, orig) = expected
              /\ \A cu \in CurrencyUnits, c \in Currencies :
                     RouterData_try_from_unit(cu, c, a, orig) = expected
    /\ item # NotYet =>
          /\ item.ok
          /\ item.val.amount \in Amounts
          /\ item.val.router_data = orig
          /\ pc # "failed" \/ ~req.ok

C15_Witness ==
    /\ pc = "wrapped" /\ flow = "Authorize"
    /\ data.request.currency = "JPY"
    /\ item = Ok([amount |-> 1050, router_data |-> orig])

\* C16: for every processor payments response, whatever its status, the
\* payments outbound transformer succeeds; the outcome is
\* Ok(TransactionResponse) whose resource_id is the processor's transaction id
\* and whose other fields are all absent, and the envelope status is the image
\* of the processor status.
C16_PaymentsOutcome ==
    /\ (flow = "Authorize" /\ pc = "sent") =>
          PaymentsResponse_try_from(resp.val, data).ok
    /\ (flow = "Authorize" /\ resp # None) => pc \in {"sent", "done"}
    /\ (flow = "Authorize" /\ pc = "done") =>
          /\ data.response.ok
          /\ data.response.val.variant = "TransactionResponse"
          /\ data.response.val.resource_id =
                [variant |-> "ConnectorTransactionId", id |-> resp.val.id]
          /\ \A f \in {"redirection_data", "mandate_reference",
                       "connector_metadata", "network_txn_id",
                       "connector_response_reference_id",
                       "incremental_authorization_allowed"} :
                 data.response.val[f] = None
          /\ DOMAIN data.response.val =
                {"variant", "resource_id", "redirection_data",
                 "mandate_reference", "connector_metadata", "network_txn_id",
                 "connector_response_reference_id",
                 "incremental_authorization_allowed"}
          /\ data.status = (CASE resp.val.status = "Succeeded" -> "Charged"
                              [] resp.val.status = "Failed" -> "Failure"
                              [] resp.val.status = "Processing" -> "Authorizing")

C16_Witness ==
    /\ flow = "Authorize" /\ pc = "done"
    /\ resp.val.status = "Failed"
    /\ data.status = "Failure"
    /\ data.response.ok
    /\ data.response.val.resource_id.id = "pay_1"
    /\ data.response.val.connector_response_reference_id = None

\* C17: in every Authenticate request that is built, purchase_exponent is "2"
\* and purchase_amount is the unscaled wrapper amount, for a two-decimal and
\* for a zero-decimal currency alike; purchase_currency is the ISO numeric
\* code of the envelope currency (USD 840, JPY 392) and bill_addr_country the
\* ISO numeric id of the billing country (US 840, JP 392).
C17_PurchaseFields ==
    (flow = "Authenticate" /\ req.ok) =>
        LET request == data.request
            country == request.billing_address.address.val.country.val
        IN  /\ req.val.purchase_exponent = "2"
            /\ ParseI64(req.val.purchase_amount).ok
            /\ ParseI64(req.val.purchase_amount).val = item.val.amount
            /\ req.val.purchase_currency =
                  (IF request.currency.val = "USD" THEN <<"8", "4", "0">>
                                                   ELSE <<"3", "9", "2">>)
            /\ req.val.bill_addr_country =
                  (IF country = "US" THEN <<"8", "4", "0">>
                                     ELSE <<"3", "9", "2">>)

C17_Witness ==
    /\ flow = "Authenticate" /\ req.ok
    /\ data.request.currency = Some("JPY")
    /\ item.val.amount = 1050
    /\ req.val.purchase_amount = <<"1", "0", "5", "0">>
    /\ req.val.purchase_exponent = "2"
    /\ req.val.purchase_currency = <<"3", "9", "2">>

\* C19: the Execute and the RSync refund outbound transformers are the same
\* function of (response, envelope): both succeed, set the outcome to Ok with
\* connector_refund_id the response id and refund_status the image of the
\* processor refund status, and leave the attempt status as it was.
C19_RefundTransformersEquivalent ==
    (flow \in {"Execute", "RSync"} /\ resp # None) =>
        /\ RefundExecute_try_from(resp.val, orig).ok
        /\ RefundExecute_try_from(resp.val, orig)
              = RefundSync_try_from(resp.val, orig)
        /\ pc \in {"sent", "done"}
        /\ pc = "done" =>
              /\ data.status = orig.status
              /\ data.response =
                    Ok([connector_refund_id |-> resp.val.id,
                        refund_status |->
                            CASE resp.val.status = "Succeeded" -> "Success"
                              [] resp.val.status = "Failed" -> "Failure"
                              [] resp.val.status = "Processing" -> "Pending"])

C19_Witness ==
    /\ flow = "RSync" /\ pc = "done"
    /\ orig.status = "Pending" /\ data.status = "Pending"
    /\ resp.val = [id |-> "ref_1", status |-> "Failed"]
    /\ data.response.val =
          [connector_refund_id |-> "ref_1", refund_status |-> "Failure"]

-----------------------------------------------------------------------------
(* Claims about interleaved operations (ConcSpec) *)

\* the clock reading operation o took (any instant if it took none)
ClockOf(o) == IF clock[o].some THEN clock[o].val ELSE CHOOSE n \in Clock : TRUE

\* C12: however the steps of the operations interleave, every operation holds
\* what it would hold run alone: its credential result, wrapper, request and
\* returned envelope are the transformers' values on its own envelope, wrapper
\* amount, clock reading and response, whatever the other operations did.
C12_OperationsIndependent ==
    \A o \in Ops :
        /\ auth[o] # NotYet =>
              auth[o] = AuthType_try_from(orig[o].connector_auth_type)
        /\ item[o] # NotYet =>
              item[o].ok /\ item[o].val.router_data = orig[o]
        /\ req[o] # NotYet =>
              req[o] = InboundOf(flow[o], item[o].val, ClockOf(o))
        /\ data[o] = IF pc[o] = "done"
                     THEN OutboundOf(flow[o], resp[o].val, orig[o]).val
                     ELSE orig[o]

C12_Witness ==
    /\ flow[1] = "Authorize" /\ flow[2] = "Authorize"
    /\ pc[1] = "done" /\ pc[2] = "built"
    /\ item[1].val.amount = 0 /\ item[2].val.amount = 1050
    /\ req[1].val.amount = 0 /\ req[2].val.amount = 1050
    /\ data[2] = orig[2] /\ data[1] # orig[1]

\* the two-digit or four-digit field of a stamp, as an integer
StampField(stamp, from, to) == ParseI64(SubSeq(stamp, from, to)).val

\* a stamp in the wire format YYYYMMDDHHmmss that shows the instant `now`
IsStampOf(stamp, now) ==
    /\ Len(stamp) = 14
    /\ \A i \in 1..14 : IsDigit(stamp[i])
    /\ StampField(stamp, 1, 4) = now.year
    /\ StampField(stamp, 5, 6) = now.month
    /\ StampField(stamp, 7, 8) = now.day
    /\ StampField(stamp, 9, 10) = now.hour
    /\ StampField(stamp, 11, 12) = now.minute
    /\ StampField(stamp, 13, 14) = now.second

\* C18: two operations with equal inputs get equal outputs from every
\* transformer (credential conversion, inbound, outbound), except that two
\* Authenticate requests may differ in purchase_date, which is the clock
\* reading taken when the request was built, in the format YYYYMMDDHHmmss.
C18_DeterministicButStamp ==
    /\ \A o1, o2 \in Ops :
          /\ (/\ auth[o1] # NotYet /\ auth[o2] # NotYet
              /\ orig[o1].connector_auth_type = orig[o2].connector_auth_type)
             => auth[o1] = auth[o2]
          /\ (/\ req[o1] # NotYet /\ req[o2] # NotYet
              /\ flow[o1] = flow[o2] /\ item[o1] = item[o2])
             => /\ req[o1].ok = req[o2].ok
                /\ ~req[o1].ok => req[o1] = req[o2]
                /\ req[o1].ok =>
                      /\ DOMAIN req[o1].val = DOMAIN req[o2].val
                      /\ \A f \in DOMAIN req[o1].val \ {"purchase_date"} :
                             req[o1].val[f] = req[o2].val[f]
          /\ (/\ pc[o1] = "done" /\ pc[o2] = "done"
              /\ flow[o1] = flow[o2] /\ orig[o1] = orig[o2]
              /\ resp[o1] = resp[o2])
             => data[o1] = data[o2]
    /\ \A o \in Ops :
          (flow[o] = "Authenticate" /\ req[o].ok) =>
              IsStampOf(req[o].val.purchase_date, clock[o].val)

C18_Witness ==
    /\ flow[1] = "Authenticate" /\ flow[2] = "Authenticate"
    /\ item[1] = item[2]
    /\ req[1].ok /\ req[2].ok
    /\ clock[1] # clock[2]
    /\ req[1].val.purchase_date # req[2].val.purchase_date
    /\ req[1].val.purchase_date =
          <<"2", "0", "2", "4", "0", "2", "0", "9", "0", "7", "0", "5", "0", "3">>
    /\ req[1].val.purchase_amount = req[2].val.purchase_amount

====
